---------------------------- MODULE Spec2Model ----------------------------
(***************************************************************************)
(* Model of src/app.py: the grade-history text normalizer, row segmenter,  *)
(* row parser and the CSV export / import of course records.               *)
(*                                                                         *)
(* Text is modelled by TLA+ strings; a character is a string of length 1.  *)
(* Three specifications share the module's variables:                      *)
(*   Spec      the PDF path (parse_grade_history) and direct calls of      *)
(*             parse_course_line;                                          *)
(*   SpecNorm  normalize_raw_text applied once and twice;                  *)
(*   SpecCsv   download_csv, parse_csv and the export/import round trip.   *)
(***************************************************************************)
EXTENDS Integers, Sequences, FiniteSets, TLC

VARIABLES
    \* ---- normalize_raw_text (SpecNorm)
    norm_pc,        \* "in" | "once" | "twice"
    norm_in,        \* the argument text
    norm_out1,      \* normalize_raw_text(norm_in)
    norm_out2,      \* normalize_raw_text(norm_out1)
    \* ---- parse_grade_history / parse_course_line (Spec)
    op,             \* which function is running: "parse_grade_history" | "parse_course_line" | "idle"
    pc,             \* position in the running function
    doc,            \* history: how the document text was laid out, line by line
    raw_text,       \* extract_text_from_pdf's result
    lines,          \* text.splitlines()
    idx,            \* index of the next physical line of the for loop
    current_line,   \* the accumulator
    records,        \* the records list
    handed,         \* history: the rows passed to parse_course_line, in call order
    anchors,        \* history: number of anchor lines consumed so far
    row_tokens,     \* history: the tokens a directly parsed row was built from
    row_in,         \* argument of a direct parse_course_line call
    row_out,        \* its result (<<>> is None, <<r>> a record)
    \* ---- CSV codec (SpecCsv)
    csv_op,         \* "roundtrip" | "download" | "upload" | "idle"
    csv_pc,         \* "table" | "form" | "file" | "parsed"
    orig_records,   \* the records shown in the table (round trip)
    entries,        \* history: the submitted (row index, field name, value) entries
    form,           \* request.form.items(): sequence of <<key, value>>
    csv_data,       \* the CSV text (download's response body / upload's file)
    csv_result      \* parse_csv's outcome: [raised |-> BOOLEAN, records |-> Seq]

normVars == <<norm_pc, norm_in, norm_out1, norm_out2>>
pdfVars  == <<op, pc, doc, raw_text, lines, idx, current_line, records, handed,
              anchors, row_tokens, row_in, row_out>>
csvVars  == <<csv_op, csv_pc, orig_records, entries, form, csv_data, csv_result>>
vars     == <<normVars, pdfVars, csvVars>>

(***************************************************************************)
(* Bounds of the model.                                                    *)
(***************************************************************************)
MaxPieces == 3      \* pieces concatenated into a normalizer input
MaxLines == 3       \* physical lines of a document
MaxTitleWords == 2   \* title words of a directly parsed row
MaxTableRows == 2   \* records of a table that is exported and read back
MaxFormRows == 3    \* table rows submitted to download_csv
MaxCsvRows == 2     \* data lines of an uploaded CSV file

(***************************************************************************)
(* Characters and Python's str helpers.                                    *)
(***************************************************************************)
Digits == {"0", "1", "2", "3", "4", "5", "6", "7", "8", "9"}
Upper == {"A", "B", "C", "D", "E", "F", "G", "H", "I", "J", "K", "L", "M",
          "N", "O", "P", "Q", "R", "S", "T", "U", "V", "W", "X", "Y", "Z"}
Lower == {"a", "b", "c", "d", "e", "f", "g", "h", "i", "j", "k", "l", "m",
          "n", "o", "p", "q", "r", "s", "t", "u", "v", "w", "x", "y", "z"}
\* str.isspace() characters of the modelled alphabet
Space == {" ", "\t", "\n", "\r"}
\* the regex class \w
WordChars == Digits \cup Upper \cup Lower \cup {"_"}

\* s[i-1] in Python terms: the i-th character, "" outside the string
Ch(s, i) == IF i >= 1 /\ i <= Len(s) THEN SubSeq(s, i, i) ELSE ""

\* the least element of a non-empty set of integers
Least(S) == CHOOSE p \in S : \A q \in S : p <= q

\* the elements of a finite set of integers in ascending order
Ascending(S) ==
    [k \in 1..Cardinality(S) |-> CHOOSE p \in S : Cardinality({q \in S : q < p}) = k - 1]

\* first position at or after i whose character is not in the class (Len(s)+1 if none)
SkipClass(s, i, class) ==
    CHOOSE e \in i..(Len(s) + 1) :
        /\ e = Len(s) + 1 \/ Ch(s, e) \notin class
        /\ \A q \in i..(e - 1) : Ch(s, q) \in class

\* first position at or after i whose character is in the class (Len(s)+1 if none)
FindClass(s, i, class) ==
    CHOOSE e \in i..(Len(s) + 1) :
        /\ e = Len(s) + 1 \/ Ch(s, e) \in class
        /\ \A q \in i..(e - 1) : Ch(s, q) \notin class

\* number of whitespace characters at the end of s
TrailingSpace(s) ==
    CHOOSE k \in 0..Len(s) :
        /\ k = Len(s) \/ Ch(s, Len(s) - k) \notin Space
        /\ \A j \in 0..(k - 1) : Ch(s, Len(s) - j) \in Space

lstrip(s) == SubSeq(s, SkipClass(s, 1, Space), Len(s))

rstrip(s) == SubSeq(s, 1, Len(s) - TrailingSpace(s))

\* str.strip()
strip(s) == rstrip(lstrip(s))

\* str.split(): the maximal runs of non-whitespace characters, left to right
split(s) ==
    LET starts == {p \in 1..Len(s) : Ch(s, p) \notin Space
                                      /\ (p = 1 \/ Ch(s, p - 1) \in Space)}
        order  == Ascending(starts)
    IN  [k \in 1..Len(order) |->
            SubSeq(s, order[k], FindClass(s, order[k], Space) - 1)]

\* " ".join(tokens)
RECURSIVE join(_, _)
join(sep, toks) ==
    IF toks = <<>> THEN ""
    ELSE IF Len(toks) = 1 THEN toks[1]
    ELSE toks[1] \o sep \o join(sep, Tail(toks))

(***************************************************************************)
(* normalize_raw_text: two re.sub passes.  re.sub scans left to right,     *)
(* replaces the leftmost match and resumes after the END of that match.    *)
(***************************************************************************)
\* [A-Z]{3}\d{4} matches at position i
IsCodeAt(s, i) ==
    /\ i + 6 <= Len(s)
    /\ \A k \in 0..2 : Ch(s, i + k) \in Upper
    /\ \A k \in 3..6 : Ch(s, i + k) \in Digits

\* \b at position i, where s[i] is a word character
WordStartAt(s, i) == i = 1 \/ Ch(s, i - 1) \notin WordChars

\* number of digits group 1 of (\b\d{1,2})([A-Z]{3}\d{4}) takes at i, 0 if no match
\* (greedy: two digits are tried before one)
SlNoGlueAt(s, i) ==
    IF ~(Ch(s, i) \in Digits /\ WordStartAt(s, i)) THEN 0
    ELSE IF Ch(s, i + 1) \in Digits /\ IsCodeAt(s, i + 2) THEN 2
    ELSE IF IsCodeAt(s, i + 1) THEN 1
    ELSE 0

\* re.sub(r"(\b\d{1,2})([A-Z]{3}\d{4})", r"\1 \2", text), from position i:
\* the text up to the leftmost match is copied, the match is replaced, and the
\* scan resumes after the match
RECURSIVE SubSlNoFrom(_, _)
SubSlNoFrom(s, i) ==
    LET hits == {p \in i..Len(s) : SlNoGlueAt(s, p) > 0}
    IN  IF hits = {} THEN SubSeq(s, i, Len(s))
        ELSE LET p == Least(hits)
                 k == SlNoGlueAt(s, p)
             IN  SubSeq(s, i, p + k - 1) \o " " \o SubSeq(s, p + k, p + k + 6)
                 \o SubSlNoFrom(s, p + k + 7)

\* ([A-Z]{3}\d{4})([A-Za-z]) matches at position i
TitleGlueAt(s, i) == IsCodeAt(s, i) /\ Ch(s, i + 7) \in (Upper \cup Lower)

\* re.sub(r"([A-Z]{3}\d{4})([A-Za-z])", r"\1 \2", text), from position i
RECURSIVE SubTitleFrom(_, _)
SubTitleFrom(s, i) ==
    LET hits == {p \in i..Len(s) : TitleGlueAt(s, p)}
    IN  IF hits = {} THEN SubSeq(s, i, Len(s))
        ELSE LET p == Least(hits)
             IN  SubSeq(s, i, p + 6) \o " " \o Ch(s, p + 7) \o SubTitleFrom(s, p + 8)

normalize_raw_text(text) == SubTitleFrom(SubSlNoFrom(text, 1), 1)

(***************************************************************************)
(* clean_line and the anchor test of parse_grade_history.                  *)
(***************************************************************************)
FooterMarker == "UNOFFICIALProvisional Grade History"

\* the footer marker occurs in s at position p
MarkerAt(s, p) ==
    /\ p + Len(FooterMarker) - 1 <= Len(s)
    /\ SubSeq(s, p, p + Len(FooterMarker) - 1) = FooterMarker

\* mutant: the pattern without its ".*" removes the marker and keeps what follows
clean_line_marker_only(line) ==
    LET hits == {p \in 1..Len(line) : MarkerAt(line, p)}
        cut  == IF hits = {} THEN line
                ELSE SubSeq(line, 1, Least(hits) - 1)
                     \o SubSeq(line, Least(hits) + Len(FooterMarker), Len(line))
    IN  strip(cut)

\* re.sub(r"UNOFFICIALProvisional Grade History.*", "", line).strip():
\* the leftmost occurrence and everything after it go, then the ends are trimmed
clean_line(line) ==
    LET hits == {p \in 1..Len(line) : MarkerAt(line, p)}
        cut  == IF hits = {} THEN line
                ELSE SubSeq(line, 1, Least(hits) - 1)
    IN  strip(cut)

\* re.match(r"^\d+\s+[A-Z]{3}\d{4}\b", line)
IsAnchor(line) ==
    LET d == SkipClass(line, 1, Digits)
        w == SkipClass(line, d, Space)
    IN  /\ d > 1
        /\ w > d
        /\ IsCodeAt(line, w)
        /\ Ch(line, w + 7) \notin WordChars

\* text.splitlines(): the text cut at "\n", "\r\n" and "\r"; no empty last line
RECURSIVE splitlinesFrom(_, _)
splitlinesFrom(s, start) ==
    LET p == FindClass(s, start, {"\n", "\r"})
    IN  IF p > Len(s)
        THEN IF start > Len(s) THEN <<>> ELSE <<SubSeq(s, start, Len(s))>>
        ELSE <<SubSeq(s, start, p - 1)>>
             \o splitlinesFrom(s, IF Ch(s, p) = "\r" /\ Ch(s, p + 1) = "\n"
                                  THEN p + 2 ELSE p + 1)

splitlines(s) == splitlinesFrom(s, 1)

(***************************************************************************)
(* Python's int(), float(), str() on the literals of the modelled          *)
(* alphabet: an optional sign and decimal digits (single underscores       *)
(* between digits allowed), for float an optional fraction.  Exponents,    *)
(* "inf" and "nan" are not part of any input set below.  A failed          *)
(* conversion (ValueError) is <<>>, a value v is <<v>>.  A float value is  *)
(* the exact decimal [num |-> n, dec |-> d] = n / 10^d, without trailing   *)
(* zeros in the fraction.                                                  *)
(***************************************************************************)
DigitVal(c) ==
    CASE c = "0" -> 0 [] c = "1" -> 1 [] c = "2" -> 2 [] c = "3" -> 3
      [] c = "4" -> 4 [] c = "5" -> 5 [] c = "6" -> 6 [] c = "7" -> 7
      [] c = "8" -> 8 [] c = "9" -> 9

DigitChar(n) ==
    CASE n = 0 -> "0" [] n = 1 -> "1" [] n = 2 -> "2" [] n = 3 -> "3"
      [] n = 4 -> "4" [] n = 5 -> "5" [] n = 6 -> "6" [] n = 7 -> "7"
      [] n = 8 -> "8" [] n = 9 -> "9"

\* digits, with single underscores only between digits
IsDigitRun(s) ==
    /\ s # ""
    /\ \A i \in 1..Len(s) : Ch(s, i) \in Digits \cup {"_"}
    /\ Ch(s, 1) # "_" /\ Ch(s, Len(s)) # "_"
    /\ \A i \in 1..(Len(s) - 1) : ~(Ch(s, i) = "_" /\ Ch(s, i + 1) = "_")

RECURSIVE NatValue(_)
NatValue(s) ==
    IF s = "" THEN 0
    ELSE LET c == Ch(s, Len(s))
             rest == SubSeq(s, 1, Len(s) - 1)
         IN  IF c = "_" THEN NatValue(rest) ELSE NatValue(rest) * 10 + DigitVal(c)

CountDigits(s) == Cardinality({p \in 1..Len(s) : Ch(s, p) \in Digits})

HasSign(s) == Ch(s, 1) \in {"+", "-"}
Unsigned(s) == IF HasSign(s) THEN Tail(s) ELSE s
SignOf(s) == IF Ch(s, 1) = "-" THEN -1 ELSE 1

\* int(s)
py_int(s) ==
    LET t == strip(s)
    IN  IF IsDigitRun(Unsigned(t)) THEN <<SignOf(t) * NatValue(Unsigned(t))>> ELSE <<>>

RECURSIVE Reduce(_)
Reduce(v) ==
    IF v.dec > 0 /\ v.num % 10 = 0
    THEN Reduce([num |-> v.num \div 10, dec |-> v.dec - 1])
    ELSE v

\* float(s)
py_float(s) ==
    LET t    == strip(s)
        u    == Unsigned(t)
        dots == {p \in 1..Len(u) : Ch(u, p) = "."}
    IN  IF dots = {}
        THEN IF IsDigitRun(u)
             THEN <<[num |-> SignOf(t) * NatValue(u), dec |-> 0]>>
             ELSE <<>>
        ELSE LET p  == CHOOSE q \in dots : TRUE
                 ip == SubSeq(u, 1, p - 1)
                 fp == SubSeq(u, p + 1, Len(u))
             IN  IF /\ Cardinality(dots) = 1
                    /\ ip = "" \/ IsDigitRun(ip)
                    /\ fp = "" \/ IsDigitRun(fp)
                    /\ ip # "" \/ fp # ""
                 THEN <<Reduce([num |-> SignOf(t) * NatValue(ip \o fp),
                                dec |-> CountDigits(fp)])>>
                 ELSE <<>>

RECURSIVE NatStr(_)
NatStr(n) == IF n < 10 THEN DigitChar(n) ELSE NatStr(n \div 10) \o DigitChar(n % 10)

\* str(n) of an int
str_int(n) == IF n < 0 THEN "-" \o NatStr(-n) ELSE NatStr(n)

RECURSIVE ZeroPad(_, _)
ZeroPad(s, width) == IF Len(s) >= width THEN s ELSE ZeroPad("0" \o s, width)

\* str(x) of a float in positional notation: always a "." and a fraction digit
str_float(v) ==
    LET mag  == IF v.num < 0 THEN -v.num ELSE v.num
        sign == IF v.num < 0 THEN "-" ELSE ""
        ds   == ZeroPad(NatStr(mag), v.dec + 1)
    IN  IF v.dec = 0 THEN sign \o ds \o ".0"
        ELSE sign \o SubSeq(ds, 1, Len(ds) - v.dec) \o "."
                  \o SubSeq(ds, Len(ds) - v.dec + 1, Len(ds))

(***************************************************************************)
(* parse_course_line.  None is <<>>, a record r is <<r>>.                  *)
(***************************************************************************)
CourseRecord(sl_no, course_code, course_title, course_type, credits, grade, exam_month, result_declared_on, course_option, course_distribution) ==
    [sl_no |-> sl_no, course_code |-> course_code, course_title |-> course_title,
     course_type |-> course_type, credits |-> credits, grade |-> grade,
     exam_month |-> exam_month, result_declared_on |-> result_declared_on,
     course_option |-> course_option, course_distribution |-> course_distribution]

\* mutant: the title slice tokens[2:-6] takes the course type into the title
parse_course_line_title_slip(line) ==
    LET tokens == split(line)
        n      == Len(tokens)
    IN  IF n < 10 THEN <<>>
        ELSE IF py_int(tokens[1]) = <<>> THEN <<>>
        ELSE IF py_float(tokens[n - 5]) = <<>> THEN <<>>
        ELSE <<CourseRecord(py_int(tokens[1])[1], tokens[2],
                            join(" ", SubSeq(tokens, 3, n - 6)),
                            tokens[n - 6], py_float(tokens[n - 5])[1], tokens[n - 4],
                            tokens[n - 3], tokens[n - 2], tokens[n - 1], tokens[n])>>

\* mutant: the length test len(tokens) < 9 lets a nine-token row through
parse_course_line_nine(line) ==
    LET tokens == split(line)
        n      == Len(tokens)
    IN  IF n < 9 THEN <<>>
        ELSE IF py_int(tokens[1]) = <<>> THEN <<>>
        ELSE IF py_float(tokens[n - 5]) = <<>> THEN <<>>
        ELSE <<CourseRecord(py_int(tokens[1])[1], tokens[2],
                            join(" ", SubSeq(tokens, 3, n - 7)),
                            tokens[n - 6], py_float(tokens[n - 5])[1], tokens[n - 4],
                            tokens[n - 3], tokens[n - 2], tokens[n - 1], tokens[n])>>

parse_course_line(line) ==
    LET tokens == split(line)
        n      == Len(tokens)
    IN  IF n < 10 THEN <<>>
        ELSE IF py_int(tokens[1]) = <<>> THEN <<>>
        ELSE IF py_float(tokens[n - 5]) = <<>> THEN <<>>
        ELSE <<CourseRecord(py_int(tokens[1])[1],
                            tokens[2],
                            join(" ", SubSeq(tokens, 3, n - 7)),
                            tokens[n - 6],
                            py_float(tokens[n - 5])[1],
                            tokens[n - 4],
                            tokens[n - 3],
                            tokens[n - 2],
                            tokens[n - 1],
                            tokens[n])>>

(***************************************************************************)
(* The csv module as app.py uses it: csv.writer with the default dialect   *)
(* (delimiter ",", quote character '"', minimal quoting, doubled quotes,   *)
(* line terminator "\r\n") and csv.reader over a text stream opened with   *)
(* universal newlines.                                                     *)
(***************************************************************************)
Quote == "\""

\* every '"' of s doubled
RECURSIVE DoubleQuotes(_, _)
DoubleQuotes(s, i) ==
    LET q == FindClass(s, i, {Quote})
    IN  IF q > Len(s) THEN SubSeq(s, i, Len(s))
        ELSE SubSeq(s, i, q) \o Quote \o DoubleQuotes(s, q + 1)

\* a field as csv.writer writes it: quoted when it holds a delimiter, a quote
\* or a line break
WriteField(f) ==
    IF \E p \in 1..Len(f) : Ch(f, p) \in {",", Quote, "\r", "\n"}
    THEN Quote \o DoubleQuotes(f, 1) \o Quote
    ELSE f

\* writer.writerow(fields), for a row of two or more fields
writerow(fields) ==
    join(",", [k \in 1..Len(fields) |-> WriteField(fields[k])]) \o "\r\n"

\* io.TextIOWrapper(file_obj, encoding="utf-8"): "\r\n" and "\r" are read as "\n"
RECURSIVE UniversalNewlines(_, _)
UniversalNewlines(s, i) ==
    LET p == FindClass(s, i, {"\r"})
    IN  IF p > Len(s) THEN SubSeq(s, i, Len(s))
        ELSE SubSeq(s, i, p - 1) \o "\n"
             \o UniversalNewlines(s, IF Ch(s, p + 1) = "\n" THEN p + 2 ELSE p + 1)

\* position of the quote that closes a quoted field whose content starts at i
\* (a doubled quote does not close it); Len(s)+1 if it is never closed
RECURSIVE CloseQuote(_, _)
CloseQuote(s, i) ==
    LET q == FindClass(s, i, {Quote})
    IN  IF q > Len(s) THEN q
        ELSE IF Ch(s, q + 1) = Quote THEN CloseQuote(s, q + 2)
        ELSE q

\* every doubled quote of a quoted field's content read as one quote
RECURSIVE Undouble(_, _)
Undouble(s, i) ==
    LET q == FindClass(s, i, {Quote})
    IN  IF q > Len(s) THEN SubSeq(s, i, Len(s))
        ELSE SubSeq(s, i, q) \o Undouble(s, q + 2)

\* the field starting at i: its value and the position of the delimiter or
\* line break that ends it (Len(s)+1 at the end of the text).  Text after a
\* closing quote is kept as part of the field, as the non-strict reader does.
ReadField(s, i) ==
    IF Ch(s, i) = Quote
    THEN LET q == CloseQuote(s, i + 1)
             e == IF q > Len(s) THEN q ELSE FindClass(s, q + 1, {",", "\n"})
         IN  [val |-> Undouble(SubSeq(s, i + 1, q - 1), 1)
                        \o (IF q > Len(s) THEN "" ELSE SubSeq(s, q + 1, e - 1)),
              end |-> e]
    ELSE LET e == FindClass(s, i, {",", "\n"})
         IN  [val |-> SubSeq(s, i, e - 1), end |-> e]

\* the fields of the row whose next field starts at i, and where the next row starts
RECURSIVE ReadFields(_, _)
ReadFields(s, i) ==
    LET f == ReadField(s, i)
    IN  IF Ch(s, f.end) = ","
        THEN LET r == ReadFields(s, f.end + 1)
             IN  [fields |-> <<f.val>> \o r.fields, next |-> r.next]
        ELSE [fields |-> <<f.val>>, next |-> f.end + 1]

\* csv.reader: the rows of the text from position i; an empty line is the row []
RECURSIVE ReadRows(_, _)
ReadRows(s, i) ==
    IF i > Len(s) THEN <<>>
    ELSE IF Ch(s, i) = "\n" THEN <<<<>>>> \o ReadRows(s, i + 1)
    ELSE LET r == ReadFields(s, i)
         IN  <<r.fields>> \o ReadRows(s, r.next)

\* csv.DictReader: the first row gives the field names; empty rows are
\* skipped; a row is a dict from field name to cell, None (here <<>>) for a
\* missing cell, with the surplus cells as a list under the key None (rest)
DictRow(fieldnames, row) ==
    [keys |-> fieldnames,
     vals |-> [k \in 1..Len(fieldnames) |-> IF k <= Len(row) THEN <<row[k]>> ELSE <<>>],
     rest |-> IF Len(row) > Len(fieldnames)
              THEN <<SubSeq(row, Len(fieldnames) + 1, Len(row))>> ELSE <<>>]

DictReader(text) ==
    LET rows == ReadRows(text, 1)
    IN  IF rows = <<>> THEN <<>>
        ELSE LET data == SelectSeq(Tail(rows), LAMBDA r : r # <<>>)
             IN  [k \in 1..Len(data) |-> DictRow(rows[1], data[k])]

\* (row.get(col) or ""): the cell of the last column named col, "" if there
\* is none or the cell is None
GetOrEmpty(row, col) ==
    LET ks == {k \in 1..Len(row.keys) : row.keys[k] = col}
    IN  IF ks = {} THEN ""
        ELSE LET v == row.vals[CHOOSE k \in ks : \A j \in ks : j <= k]
             IN  IF v = <<>> THEN "" ELSE v[1]

(***************************************************************************)
(* parse_csv.  The outcome is [raised, records]: raised when an exception  *)
(* leaves the function, records the list it returns otherwise.             *)
(***************************************************************************)
\* line 144: any(...) over row.keys() stops at the first non-blank cell; if
\* every named cell is blank it reaches the key None, whose value is a list
\* and has no strip(): "blank" | "data" | "raise"
RowKind(row) ==
    IF \E k \in 1..Len(row.keys) : strip(GetOrEmpty(row, row.keys[k])) # "" THEN "data"
    ELSE IF row.rest # <<>> THEN "raise"
    ELSE "blank"

\* lines 147-181: the record of a row, <<>> when the row is skipped
RowRecord(row) ==
    LET sl_no_str   == strip(GetOrEmpty(row, "Sl.No"))
        credits_str == strip(GetOrEmpty(row, "Credits"))
        credits     == IF credits_str # "" THEN py_float(credits_str)
                       ELSE <<[num |-> 0, dec |-> 0]>>
    IN  IF sl_no_str = "" THEN <<>>
        ELSE IF py_int(sl_no_str) = <<>> THEN <<>>
        ELSE IF credits = <<>> THEN <<>>
        ELSE <<CourseRecord(py_int(sl_no_str)[1],
                            strip(GetOrEmpty(row, "Course Code")),
                            strip(GetOrEmpty(row, "Course Title")),
                            strip(GetOrEmpty(row, "Course Type")),
                            credits[1],
                            strip(GetOrEmpty(row, "Grade")),
                            strip(GetOrEmpty(row, "Exam Month")),
                            strip(GetOrEmpty(row, "Result Declared On")),
                            strip(GetOrEmpty(row, "Course Option")),
                            strip(GetOrEmpty(row, "Course Distribution")))>>

\* lines 142-183: the loop over the rows, from row k on, with the records so far
RECURSIVE ParseRows(_, _, _)
ParseRows(rows, k, recs) ==
    IF k > Len(rows) THEN [raised |-> FALSE, records |-> recs]
    ELSE LET kind == RowKind(rows[k])
         IN  IF kind = "raise" THEN [raised |-> TRUE, records |-> <<>>]
             ELSE IF kind = "blank" THEN ParseRows(rows, k + 1, recs)
             ELSE ParseRows(rows, k + 1, recs \o RowRecord(rows[k]))

parse_csv(file_text) == ParseRows(DictReader(UniversalNewlines(file_text, 1)), 1, <<>>)

(***************************************************************************)
(* download_csv.  The form is the sequence of (key, value) pairs of        *)
(* request.form.items().                                                   *)
(***************************************************************************)
header ==
    <<"Sl.No", "Course Code", "Course Title", "Course Type", "Credits",
      "Grade", "Exam Month", "Result Declared On", "Course Option", "Course Distribution">>

\* mutant: credits and grade change places in the field order
field_order_swapped ==
    <<"sl_no", "course_code", "course_title", "course_type", "grade",
      "credits", "exam_month", "result_declared_on", "course_option", "course_distribution">>

field_order ==
    <<"sl_no", "course_code", "course_title", "course_type", "credits",
      "grade", "exam_month", "result_declared_on", "course_option", "course_distribution">>

\* pattern.match(key) for r"row-(\d+)-([a-z_]+)": <<int(group 1), group 2>>, <<>> if no match
MatchKey(key) ==
    LET d == SkipClass(key, 5, Digits)
        f == SkipClass(key, d + 1, Lower \cup {"_"})
    IN  IF /\ Len(key) >= 4 /\ SubSeq(key, 1, 4) = "row-"
           /\ d > 5
           /\ Ch(key, d) = "-"
           /\ f > d + 1
        THEN <<NatValue(SubSeq(key, 5, d - 1)), SubSeq(key, d + 1, f - 1)>>
        ELSE <<>>

\* lines 215-222: rows_data, a dict from row index to a dict from field to the
\* stripped value; a later pair with the same index and field overwrites
rows_data(items) ==
    LET m    == [k \in 1..Len(items) |-> MatchKey(items[k][1])]
        hits == {k \in 1..Len(items) : m[k] # <<>>}
        idxs == {m[k][1] : k \in hits}
        flds(i) == {m[k][2] : k \in {j \in hits : m[j][1] = i}}
        last(i, f) == CHOOSE k \in hits :
                         /\ m[k] = <<i, f>>
                         /\ \A j \in hits : m[j] = <<i, f>> => j <= k
    IN  [i \in idxs |-> [f \in flds(i) |-> strip(items[last(i, f)][2])]]

\* row.get(f, "")
RowGet(row, f) == IF f \in DOMAIN row THEN row[f] ELSE ""

\* mutant: the row indices are taken in the order of their decimal text
\* ("10" before "2"), as sorting the keys as strings would
SortedKeys_as_text(data) ==
    LET S == DOMAIN data
        width(n) == Len(NatStr(n))
        scaled(n) == n * 10 ^ (8 - width(n))
        before(a, b) == \/ scaled(a) < scaled(b)
                        \/ scaled(a) = scaled(b) /\ width(a) < width(b)
    IN  [k \in 1..Cardinality(S) |->
            CHOOSE p \in S : Cardinality({q \in S : q # p /\ before(q, p)}) = k - 1]

\* sorted(rows_data.keys())
SortedKeys(data) == Ascending(DOMAIN data)

\* lines 238-245: the CSV lines of the rows from position k of the sorted keys
RECURSIVE WriteRows(_, _, _)
WriteRows(data, keys, k) ==
    IF k > Len(keys) THEN ""
    ELSE LET row == data[keys[k]]
         IN  (IF \A j \in 1..Len(field_order) : RowGet(row, field_order[j]) = ""
              THEN ""
              ELSE writerow([j \in 1..Len(field_order) |-> RowGet(row, field_order[j])]))
             \o WriteRows(data, keys, k + 1)

\* the response body
download_csv(items) ==
    LET data == rows_data(items)
    IN  writerow(header) \o WriteRows(data, SortedKeys(data), 1)

(***************************************************************************)
(* SpecNorm: normalize_raw_text applied to an input, then to its output.   *)
(***************************************************************************)
\* the pieces normalizer inputs are concatenated from
NormPieces == {"ABC1234", "DEF5678", "G", "x", "6", "12", " ", "-"}

RECURSIVE concat(_)
concat(ps) == IF ps = <<>> THEN "" ELSE ps[1] \o concat(Tail(ps))

NormInputs ==
    {concat(ps) : ps \in UNION {[1..n -> NormPieces] : n \in 0..MaxPieces}}

PdfIdle ==
    /\ op = "idle" /\ pc = "idle" /\ doc = <<>> /\ raw_text = "" /\ lines = <<>>
    /\ idx = 0 /\ current_line = "" /\ records = <<>> /\ handed = <<>>
    /\ anchors = 0 /\ row_tokens = <<>> /\ row_in = "" /\ row_out = <<>>

CsvIdle ==
    /\ csv_op = "idle" /\ csv_pc = "idle" /\ orig_records = <<>> /\ form = <<>>
    /\ entries = <<>>
    /\ csv_data = "" /\ csv_result = [raised |-> FALSE, records |-> <<>>]

NormIdle ==
    /\ norm_pc = "idle" /\ norm_in = "" /\ norm_out1 = "" /\ norm_out2 = ""

InitNorm ==
    /\ norm_pc = "in"
    /\ norm_in \in NormInputs
    /\ norm_out1 = ""
    /\ norm_out2 = ""
    /\ PdfIdle /\ CsvIdle

NormalizeOnce ==
    /\ norm_pc = "in"
    /\ norm_out1' = normalize_raw_text(norm_in)
    /\ norm_pc' = "once"
    /\ UNCHANGED <<norm_in, norm_out2, pdfVars, csvVars>>

NormalizeTwice ==
    /\ norm_pc = "once"
    /\ norm_out2' = normalize_raw_text(norm_out1)
    /\ norm_pc' = "twice"
    /\ UNCHANGED <<norm_in, norm_out1, pdfVars, csvVars>>

NextNorm == NormalizeOnce \/ NormalizeTwice

SpecNorm == InitNorm /\ [][NextNorm]_vars

(***************************************************************************)
(* Spec: parse_grade_history over a document, and direct calls of          *)
(* parse_course_line.                                                      *)
(*                                                                         *)
(* A document is laid out from line descriptors: the text before a         *)
(* possible footer, whether the footer marker follows, and the text after  *)
(* the marker.  No body or tail contains the marker or a line break.       *)
(***************************************************************************)
Line(body, footer, tail) == [body |-> body, footer |-> footer, tail |-> tail]

LineChoices ==
    { \* a complete row, glued as the extractor glues it
      Line("6HUM1021Engineering Mechanics L 3.0 B MAY2023 JUN2023 FULL DIST2", FALSE, ""),
      \* the first physical line of a wrapped row
      Line("12 CSE1002 Data", FALSE, ""),
      \* a continuation that completes a wrapped row
      Line("Structures TH 4.0 A DEC2022 JAN2023 FULL DIST1", FALSE, ""),
      \* a blank line
      Line("  ", FALSE, ""),
      \* a footer on a line of its own
      Line("", TRUE, " Page 1 of 2"),
      \* a complete row with the footer stuck to it
      Line("3 CSE1001 Intro TH 4.0 A MAY2023 JUN2023 FULL DIST3", TRUE, " 9 XYZ9999 Page"),
      \* a ten-token row whose credits are not a number
      Line("7 MAT1001 Calculus TH X A MAY2023 JUN2023 FULL DIST4", FALSE, ""),
      \* a row of exactly nine tokens
      Line("8 PHY1001 LO 2.5 S MAY2023 JUN2023 FULL DIST5", FALSE, ""),
      \* a wrapped title word with the footer stuck to it
      Line("and Algorithms ", TRUE, "Page 2 of 2") }

Docs == UNION {[1..n -> LineChoices] : n \in 0..MaxLines}

LineText(d) == d.body \o (IF d.footer THEN FooterMarker \o d.tail ELSE "")

RECURSIVE DocText(_)
DocText(d) ==
    IF d = <<>> THEN ""
    ELSE IF Len(d) = 1 THEN LineText(d[1])
    ELSE LineText(d[1]) \o "\n" \o DocText(Tail(d))

\* the rows parse_course_line is called on directly
SlNoTokens == {"3", "12", "x", "3.0"}
CreditTokens == {"4.0", "3", "X", "2.5"}
TitleWords == {"Intro", "to", "101"}
Titles == UNION {[1..n -> TitleWords] : n \in 0..MaxTitleWords}
RowTokens ==
    {<<a, "CSE1001">> \o t \o <<"REG", c, "A", "MAY2023", "JUN2023", "FULL", "DIST1">> :
        a \in SlNoTokens, t \in Titles, c \in CreditTokens}
RowStyles == {"plain", "ragged"}
BuildRow(toks, style) ==
    IF style = "plain" THEN join(" ", toks) ELSE "  " \o join(" \t ", toks) \o " "

InitPdf ==
    /\ NormIdle /\ CsvIdle
    /\ lines = <<>> /\ idx = 0 /\ current_line = "" /\ records = <<>>
    /\ handed = <<>> /\ anchors = 0 /\ row_out = <<>>
    /\ pc = "start"
    /\ \/ /\ op = "parse_grade_history"
          /\ doc \in Docs
          /\ raw_text = DocText(doc)
          /\ row_tokens = <<>> /\ row_in = ""
       \/ /\ op = "parse_course_line"
          /\ row_tokens \in RowTokens
          /\ \E style \in RowStyles : row_in = BuildRow(row_tokens, style)
          /\ doc = <<>> /\ raw_text = ""

\* lines 97-102: the text is normalized and split; records and accumulator start empty
ExtractAndNormalize ==
    /\ op = "parse_grade_history" /\ pc = "start"
    /\ lines' = splitlines(normalize_raw_text(raw_text))
    /\ records' = <<>>
    /\ current_line' = ""
    /\ idx' = 1
    /\ pc' = "loop"
    /\ UNCHANGED <<op, doc, raw_text, handed, anchors, row_tokens, row_in, row_out,
                   normVars, csvVars>>

InLoop == op = "parse_grade_history" /\ pc = "loop" /\ idx <= Len(lines)

\* mutant: a blank line closes the current row
LoopSkipEmpty_closes ==
    /\ InLoop
    /\ clean_line(lines[idx]) = ""
    /\ IF current_line # ""
       THEN /\ records' = records \o parse_course_line(current_line)
            /\ handed' = Append(handed, current_line)
       ELSE UNCHANGED <<records, handed>>
    /\ current_line' = ""
    /\ idx' = idx + 1
    /\ UNCHANGED <<op, pc, doc, raw_text, lines, anchors, row_tokens, row_in,
                   row_out, normVars, csvVars>>

\* lines 105-107: an empty cleaned line is skipped
LoopSkipEmpty ==
    /\ InLoop
    /\ clean_line(lines[idx]) = ""
    /\ idx' = idx + 1
    /\ UNCHANGED <<op, pc, doc, raw_text, lines, current_line, records, handed,
                   anchors, row_tokens, row_in, row_out, normVars, csvVars>>

\* lines 110-115: an anchor line flushes the accumulated row and starts a new one
LoopStartRow ==
    /\ InLoop
    /\ LET line == clean_line(lines[idx])
       IN  /\ line # ""
           /\ IsAnchor(line)
           /\ IF current_line # ""
              THEN /\ records' = records \o parse_course_line(current_line)
                   /\ handed' = Append(handed, current_line)
              ELSE UNCHANGED <<records, handed>>
           /\ current_line' = line
    /\ anchors' = anchors + 1
    /\ idx' = idx + 1
    /\ UNCHANGED <<op, pc, doc, raw_text, lines, row_tokens, row_in, row_out,
                   normVars, csvVars>>

\* lines 116-118: any other line is appended to the accumulator, if there is one
LoopContinue ==
    /\ InLoop
    /\ LET line == clean_line(lines[idx])
       IN  /\ line # ""
           /\ ~IsAnchor(line)
           /\ current_line # ""
           /\ current_line' = current_line \o " " \o line
    /\ idx' = idx + 1
    /\ UNCHANGED <<op, pc, doc, raw_text, lines, records, handed, anchors,
                   row_tokens, row_in, row_out, normVars, csvVars>>

\* mutant: without the "if current_line" guard a stray line is accumulated
LoopDropStray_keeps ==
    /\ InLoop
    /\ LET line == clean_line(lines[idx])
       IN  /\ line # ""
           /\ ~IsAnchor(line)
           /\ current_line = ""
           /\ current_line' = current_line \o " " \o line
    /\ idx' = idx + 1
    /\ UNCHANGED <<op, pc, doc, raw_text, lines, records, handed, anchors,
                   row_tokens, row_in, row_out, normVars, csvVars>>

\* lines 116-117: ... and is dropped when there is none
LoopDropStray ==
    /\ InLoop
    /\ LET line == clean_line(lines[idx])
       IN  /\ line # ""
           /\ ~IsAnchor(line)
           /\ current_line = ""
    /\ idx' = idx + 1
    /\ UNCHANGED <<op, pc, doc, raw_text, lines, current_line, records, handed,
                   anchors, row_tokens, row_in, row_out, normVars, csvVars>>

\* mutant: the loop ends without the flush after it
FinalFlush_noflush ==
    /\ op = "parse_grade_history" /\ pc = "loop" /\ idx > Len(lines)
    /\ pc' = "done"
    /\ UNCHANGED <<op, doc, raw_text, lines, idx, current_line, records, handed,
                   anchors, row_tokens, row_in, row_out, normVars, csvVars>>

\* lines 120-125: after the last line the remaining accumulator is flushed
FinalFlush ==
    /\ op = "parse_grade_history" /\ pc = "loop" /\ idx > Len(lines)
    /\ IF current_line # ""
       THEN /\ records' = records \o parse_course_line(current_line)
            /\ handed' = Append(handed, current_line)
       ELSE UNCHANGED <<records, handed>>
    /\ pc' = "done"
    /\ UNCHANGED <<op, doc, raw_text, lines, idx, current_line, anchors,
                   row_tokens, row_in, row_out, normVars, csvVars>>

\* a direct call parse_course_line(row_in)
CallParseCourseLine ==
    /\ op = "parse_course_line" /\ pc = "start"
    /\ row_out' = parse_course_line(row_in)
    /\ pc' = "done"
    /\ UNCHANGED <<op, doc, raw_text, lines, idx, current_line, records, handed,
                   anchors, row_tokens, row_in, normVars, csvVars>>

Next ==
    \/ ExtractAndNormalize
    \/ LoopSkipEmpty
    \/ LoopStartRow
    \/ LoopContinue
    \/ LoopDropStray
    \/ FinalFlush
    \/ CallParseCourseLine

Spec == InitPdf /\ [][Next]_vars

(***************************************************************************)
(* Properties of the PDF path, checked under Spec.                         *)
(***************************************************************************)
\* a token sequence that is no valid row
Malformed(t) ==
    \/ Len(t) < 10
    \/ py_int(t[1]) = <<>>
    \/ py_float(t[Len(t) - 5]) = <<>>

\* C3: a directly parsed row of n >= 10 tokens with an integer first token and
\* a numeric token n-6 yields the record whose fields are the tokens at the
\* fixed positions, the title being tokens 2..n-8 (n-9 tokens) joined by spaces.
C3_RightAnchoring ==
    (op = "parse_course_line" /\ pc = "done" /\ ~Malformed(row_tokens)) =>
        LET t == row_tokens
            n == Len(t)
            title == [k \in 1..(n - 9) |-> t[k + 2]]
        IN  row_out = <<[sl_no |-> py_int(t[1])[1],
                         course_code |-> t[2],
                         course_title |-> join(" ", title),
                         course_type |-> t[n - 6],
                         credits |-> py_float(t[n - 5])[1],
                         grade |-> t[n - 4],
                         exam_month |-> t[n - 3],
                         result_declared_on |-> t[n - 2],
                         course_option |-> t[n - 1],
                         course_distribution |-> t[n]]>>

C3_Witness ==
    /\ op = "parse_course_line" /\ pc = "done"
    /\ Len(row_tokens) = 11
    /\ row_in # join(" ", row_tokens)
    /\ row_out # <<>>
    /\ row_out[1].course_title = "Intro to"
    /\ row_out[1].credits = [num |-> 25, dec |-> 1]

\* the records of the well-formed rows among rows, in order
RECURSIVE ValidRecords(_)
ValidRecords(rows) ==
    IF rows = <<>> THEN <<>>
    ELSE (IF Malformed(split(rows[1])) THEN <<>> ELSE parse_course_line(rows[1]))
         \o ValidRecords(Tail(rows))

\* C4: a row with fewer than ten tokens, a non-integer first token or a
\* non-numeric credits token yields no record, and the records of a document
\* are exactly those of its well-formed rows, in document order.
C4_MalformedRejected ==
    /\ (op = "parse_course_line" /\ pc = "done" /\ Malformed(row_tokens)) => row_out = <<>>
    /\ op = "parse_grade_history" =>
          /\ records = ValidRecords(handed)
          /\ \A k \in 1..Len(records) : Cardinality(DOMAIN records[k]) = 10

C4_Witness ==
    /\ op = "parse_grade_history" /\ pc = "done"
    /\ Len(handed) = 3
    /\ Len(records) = 2
    /\ Malformed(split(handed[2]))
    /\ Len(split(handed[2])) >= 10

\* the cleaned physical lines 1..n
Cleaned(n) == [k \in 1..n |-> clean_line(lines[k])]

\* the logical rows of the cleaned lines cl: one per anchor line, made of that
\* line and the non-empty lines up to the next anchor line, joined by spaces
RowsOf(cl) ==
    LET starts == {k \in 1..Len(cl) : cl[k] # "" /\ IsAnchor(cl[k])}
        order  == Ascending(starts)
        last(j) == IF j = Len(order) THEN Len(cl) ELSE order[j + 1] - 1
    IN  [j \in 1..Len(order) |->
            join(" ", SelectSeq(SubSeq(cl, order[j], last(j)), LAMBDA x : x # ""))]

\* C5: every anchor line starts a row, the non-empty lines after it are
\* appended with single spaces, and each row is handed to the parser exactly
\* once, in anchor order: when the next anchor line arrives or after the last line.
C5_RowsHandedInOrder ==
    op = "parse_grade_history" =>
        /\ pc = "loop" =>
              LET rows == RowsOf(Cleaned(idx - 1))
              IN  IF rows = <<>>
                  THEN handed = <<>> /\ current_line = ""
                  ELSE handed \o <<current_line>> = rows
        /\ pc = "done" => handed = RowsOf(Cleaned(Len(lines)))

C5_Witness ==
    /\ op = "parse_grade_history" /\ pc = "done"
    /\ Len(lines) = 3
    /\ handed = <<"12 CSE1002 Data Structures TH 4.0 A DEC2022 JAN2023 FULL DIST1",
                  "8 PHY1001 LO 2.5 S MAY2023 JUN2023 FULL DIST5">>

\* the line at idx is one the loop ignores
IgnoredLine ==
    LET line == clean_line(lines[idx])
    IN  line = "" \/ (~IsAnchor(line) /\ current_line = "")

\* C8: a line that is empty after footer stripping and trimming, and a
\* non-anchor line that arrives while there is no accumulator, leave the
\* accumulator and the records unchanged.
C8_IgnoredLinesFrame ==
    [][(InLoop /\ IgnoredLine /\ idx' = idx + 1)
          => (current_line' = current_line /\ records' = records /\ handed' = handed)]_vars

C8_Witness ==
    /\ op = "parse_grade_history" /\ pc = "loop" /\ idx = 4
    /\ clean_line(lines[1]) # "" /\ ~IsAnchor(clean_line(lines[1]))
    /\ IsAnchor(clean_line(lines[2]))
    /\ clean_line(lines[3]) = ""
    /\ current_line = clean_line(lines[2])
    /\ records = <<>>

\* t occurs in s
Contains(s, t) ==
    \E p \in 1..(Len(s) - Len(t) + 1) : SubSeq(s, p, p + Len(t) - 1) = t

\* what a footer line contributes: the normalized text before the marker, trimmed
KeptOf(d) == strip(normalize_raw_text(d.body))

\* C9: a line with the footer marker is classified by the trimmed text before
\* the marker (empty, anchor or continuation), and nothing at or after the
\* marker reaches a logical row.
C9_FooterStrippedFirst ==
    /\ [][(InLoop /\ doc[idx].footer /\ idx' = idx + 1) =>
            LET kept == KeptOf(doc[idx])
            IN  /\ kept = "" => UNCHANGED <<current_line, records, handed>>
                /\ (kept # "" /\ IsAnchor(kept)) => current_line' = kept
                /\ (kept # "" /\ ~IsAnchor(kept)) =>
                      current_line' = IF current_line = "" THEN ""
                                      ELSE current_line \o " " \o kept]_vars
    /\ [](\A k \in 1..(Len(handed) + 1) :
            LET row == IF k <= Len(handed) THEN handed[k] ELSE current_line
            IN  ~Contains(row, FooterMarker) /\ ~Contains(row, "Page"))

C9_Witness ==
    /\ op = "parse_grade_history" /\ pc = "done"
    /\ Len(doc) = 3
    /\ doc[1].footer /\ doc[1].body = ""
    /\ doc[2].footer /\ IsAnchor(doc[2].body)
    /\ doc[3].footer /\ ~IsAnchor(doc[3].body)
    /\ handed = <<"3 CSE1001 Intro TH 4.0 A MAY2023 JUN2023 FULL DIST3 and Algorithms">>

\* the anchor lines among the first n physical lines
AnchorLines(n) ==
    {k \in 1..n : clean_line(lines[k]) # "" /\ IsAnchor(clean_line(lines[k]))}

\* C10: the accumulator is empty or starts with an anchor line, the records
\* list grows only by appending, there are never more records than anchor
\* lines consumed, and the records take sl_no and course_code from the first
\* two tokens of anchor lines, in the order of those lines.
C10_SegmenterInvariant ==
    /\ [](op = "parse_grade_history" /\ pc # "start" =>
            /\ current_line = "" \/ IsAnchor(current_line)
            /\ anchors = Cardinality(AnchorLines(idx - 1))
            /\ Len(records) <= anchors
            /\ \E S \in SUBSET AnchorLines(idx - 1) :
                  /\ Cardinality(S) = Len(records)
                  /\ \A j \in 1..Len(records) :
                        LET t == split(clean_line(lines[Ascending(S)[j]]))
                        IN  /\ py_int(t[1]) = <<records[j].sl_no>>
                            /\ t[2] = records[j].course_code)
    /\ [][\/ records' = records
          \/ /\ Len(records') = Len(records) + 1
             /\ SubSeq(records', 1, Len(records)) = records]_vars

C10_Witness ==
    /\ op = "parse_grade_history" /\ pc = "done"
    /\ anchors = 3
    /\ Len(records) = 2
    /\ records[1].sl_no = 6 /\ records[2].sl_no = 3

(***************************************************************************)
(* SpecCsv: a table of records rendered to the edit form, exported by      *)
(* download_csv and read back by parse_csv ("roundtrip"); an arbitrary     *)
(* form submitted to download_csv ("download"); an arbitrary file given    *)
(* to parse_csv ("upload").                                                *)
(***************************************************************************)
\* records the program can hold: produced by parse_course_line or parse_csv
RecordChoices ==
    { CourseRecord(3, "CSE1001", "Intro to", "TH", [num |-> 4, dec |-> 0], "A",
                   "MAY2023", "JUN2023", "FULL", "DIST1"),
      CourseRecord(12, "HUM1021", "Ethics, \"Applied\"", "LO", [num |-> 25, dec |-> 1], "B",
                   "DEC-2022", "05-JAN-2023", "", "DIST2"),
      CourseRecord(3, "", "", "", [num |-> 0, dec |-> 0], "", "", "", "", ""),
      CourseRecord(10, "PHY1001", "Waves\nOptics", "LO", [num |-> 3, dec |-> 0], "A",
                   "MAY2023", "JUN2023", "FULL", "DIST3"),
      CourseRecord(-7, "MAT1001", "Calculus", "TH", [num |-> 5, dec |-> 2], "S",
                   "MAY2023", "JUN2023", "FULL", "DIST1") }

RecordSeqs == UNION {[1..n -> RecordChoices] : n \in 0..MaxTableRows}

\* the form key of a field of table row i
FormKey(i, f) == "row-" \o str_int(i) \o "-" \o f

\* the text the edit table shows for a field of a record
FieldText(r, f) ==
    IF f = "sl_no" THEN str_int(r.sl_no)
    ELSE IF f = "credits" THEN str_float(r.credits)
    ELSE r[f]

\* the entries of the edit form for a table of records: one row per record,
\* the row index being the record's position, one input per field
TableEntries(recs) ==
    [k \in 1..(Len(recs) * Len(field_order)) |->
        LET i == (k - 1) \div Len(field_order)
            f == field_order[((k - 1) % Len(field_order)) + 1]
        IN  [idx |-> i, field |-> f, value |-> FieldText(recs[i + 1], f)]]

\* request.form.items() for submitted entries
FormOf(es) == [k \in 1..Len(es) |-> <<FormKey(es[k].idx, es[k].field), es[k].value>>]

\* the rows of a form submitted to download_csv directly: field/value pairs
FormRowChoices ==
    { \* every field filled, values padded with blanks, a comma and quotes in the title
      <<<<"sl_no", " 3">>, <<"course_code", "CSE1001">>, <<"course_title", " Intro, \"C\" ">>,
        <<"course_type", "TH">>, <<"credits", "4.0">>, <<"grade", "A">>,
        <<"exam_month", "MAY2023">>, <<"result_declared_on", "JUN2023">>,
        <<"course_option", "FULL">>, <<"course_distribution", "DIST1">>>>,
      \* every field empty
      <<<<"sl_no", "">>, <<"course_code", "">>, <<"course_title", "">>,
        <<"course_type", "">>, <<"credits", "">>, <<"grade", "">>,
        <<"exam_month", "">>, <<"result_declared_on", "">>,
        <<"course_option", "">>, <<"course_distribution", "">>>>,
      \* fields that are blank after trimming
      <<<<"course_title", "  ">>, <<"sl_no", " \t">>>>,
      \* a single field, submitted out of field order with another
      <<<<"grade", "B">>, <<"course_code", "PHY1001">>>>,
      \* only a field the export does not know
      <<<<"remark", "x">>>>,
      \* the last field alone
      <<<<"course_distribution", "DIST9">>>> }

RowIndices == {0, 2, 10}

\* the entries of form rows rs submitted under the row indices ix
RECURSIVE RowEntries(_, _)
RowEntries(rs, ix) ==
    IF rs = <<>> THEN <<>>
    ELSE [k \in 1..Len(rs[1]) |->
            [idx |-> ix[1], field |-> rs[1][k][1], value |-> rs[1][k][2]]]
         \o RowEntries(Tail(rs), Tail(ix))

Reversed(q) == [k \in 1..Len(q) |-> q[Len(q) + 1 - k]]

SubmittedEntries ==
    UNION { { IF rev THEN Reversed(RowEntries(rs, ix)) ELSE RowEntries(rs, ix) :
                rs \in [1..n -> FormRowChoices],
                ix \in {q \in [1..n -> RowIndices] : \A a, b \in 1..n : a # b => q[a] # q[b]},
                rev \in BOOLEAN }
            : n \in 0..MaxFormRows }

\* the lines of uploaded files, after the header line
CsvLineChoices ==
    { "3,CSE1001,Intro to,TH,4.0,A,MAY2023,JUN2023,FULL,DIST1",
      \* fewer cells than the header
      "12,HUM1021,Ethics",
      \* more cells than the header
      "7,MAT1001,Calculus,TH,3.0,B,MAY2023,JUN2023,FULL,DIST2,extra",
      \* every cell blank
      ",, ,,,,,,,",
      \* every header column blank, and a surplus cell
      ",,,,,,,,,,extra",
      \* blank Sl.No
      ",CSE1002,Data,TH,4.0,A,MAY2023,JUN2023,FULL,DIST1",
      \* non-integer Sl.No
      "x1,CSE1003,Logic,TH,4.0,A,MAY2023,JUN2023,FULL,DIST1",
      \* non-numeric Credits
      "9,CSE1004,Nets,TH,four,A,MAY2023,JUN2023,FULL,DIST1",
      \* an empty line
      "",
      \* a quoted cell, blank Credits
      "5,PHY1001,\"Waves, \"\"Optics\"\"\",LO,,S,MAY2023,JUN2023,FULL,DIST3" }

LineEnds == {"\r\n", "\n"}

RECURSIVE FileText(_, _)
FileText(ls, nl) == IF ls = <<>> THEN "" ELSE ls[1] \o nl \o FileText(Tail(ls), nl)

CsvFiles ==
    { FileText(<<join(",", header)>> \o ls, nl) :
        ls \in UNION {[1..n -> CsvLineChoices] : n \in 0..MaxCsvRows}, nl \in LineEnds }

NoResult == [raised |-> FALSE, records |-> <<>>]

InitCsv ==
    /\ NormIdle /\ PdfIdle
    /\ csv_result = NoResult
    /\ \/ /\ csv_op = "roundtrip" /\ csv_pc = "table"
          /\ orig_records \in RecordSeqs
          /\ entries = <<>> /\ form = <<>> /\ csv_data = ""
       \/ /\ csv_op = "download" /\ csv_pc = "form"
          /\ entries \in SubmittedEntries
          /\ form = FormOf(entries)
          /\ orig_records = <<>> /\ csv_data = ""
       \/ /\ csv_op = "upload" /\ csv_pc = "file"
          /\ csv_data \in CsvFiles
          /\ orig_records = <<>> /\ entries = <<>> /\ form = <<>>

\* the edit table is rendered from the records and submitted unchanged
RenderTable ==
    /\ csv_pc = "table"
    /\ entries' = TableEntries(orig_records)
    /\ form' = FormOf(entries')
    /\ csv_pc' = "form"
    /\ UNCHANGED <<csv_op, orig_records, csv_data, csv_result, normVars, pdfVars>>

\* POST /download
Download ==
    /\ csv_pc = "form"
    /\ csv_data' = download_csv(form)
    /\ csv_pc' = "file"
    /\ UNCHANGED <<csv_op, orig_records, entries, form, csv_result, normVars, pdfVars>>

\* POST / with a .csv file
Upload ==
    /\ csv_pc = "file"
    /\ csv_result' = parse_csv(csv_data)
    /\ csv_pc' = "parsed"
    /\ UNCHANGED <<csv_op, orig_records, entries, form, csv_data, normVars, pdfVars>>

NextCsv == RenderTable \/ Download \/ Upload

SpecCsv == InitCsv /\ [][NextCsv]_vars

(***************************************************************************)
(* Properties of the CSV codec, checked under SpecCsv.                     *)
(***************************************************************************)
\* C2: a table of records exported by download_csv (one form row per record,
\* row index = position) and read back by parse_csv gives the same records,
\* field for field, in the same order.
C2_RoundTrip ==
    (csv_op = "roundtrip" /\ csv_pc = "parsed") =>
        /\ ~csv_result.raised
        /\ csv_result.records = orig_records

C2_Witness ==
    /\ csv_op = "roundtrip" /\ csv_pc = "parsed"
    /\ Len(orig_records) = 2
    /\ orig_records[1].course_title = "Ethics, \"Applied\""
    /\ orig_records[2].sl_no = -7
    /\ csv_result.records = orig_records

\* a row parse_csv must skip: every header column blank, Sl.No blank or not
\* an integer, or Credits present and not a number
Offending(row) ==
    \/ \A k \in 1..Len(row.keys) : strip(GetOrEmpty(row, row.keys[k])) = ""
    \/ py_int(strip(GetOrEmpty(row, "Sl.No"))) = <<>>
    \/ /\ strip(GetOrEmpty(row, "Credits")) # ""
       /\ py_float(strip(GetOrEmpty(row, "Credits"))) = <<>>

RECURSIVE GoodRecords(_)
GoodRecords(rows) ==
    IF rows = <<>> THEN <<>>
    ELSE (IF Offending(rows[1]) THEN <<>> ELSE RowRecord(rows[1]))
         \o GoodRecords(Tail(rows))

\* C6: parse_csv raises no exception whatever the rows are (short, long,
\* blank, bad Sl.No, bad Credits); it skips exactly the offending rows and
\* returns a record for every other row, in file order.
C6_DecodeNeverFails ==
    (csv_op = "upload" /\ csv_pc = "parsed") =>
        /\ ~csv_result.raised
        /\ csv_result.records = GoodRecords(DictReader(UniversalNewlines(csv_data, 1)))

\* the ten fields in their fixed order
Columns ==
    <<"sl_no", "course_code", "course_title", "course_type", "credits",
      "grade", "exam_month", "result_declared_on", "course_option", "course_distribution">>

\* the submitted value of a field of row i, trimmed; "" when it was not submitted
Submitted(i, f) ==
    LET ks == {k \in 1..Len(entries) : entries[k].idx = i /\ entries[k].field = f}
    IN  IF ks = {} THEN "" ELSE strip(entries[CHOOSE k \in ks : TRUE].value)

\* the rows the export must write: one per row index with a non-blank known
\* field, by ascending row index
ExportedRows ==
    LET rowsWithData == {i \in {entries[k].idx : k \in 1..Len(entries)} :
                            \E j \in 1..Len(Columns) : Submitted(i, Columns[j]) # ""}
        order == Ascending(rowsWithData)
    IN  [n \in 1..Len(order) |-> [j \in 1..Len(Columns) |-> Submitted(order[n], Columns[j])]]

\* C7: the exported CSV is the header followed by one row per row index that
\* has a non-blank known field, in ascending numeric row-index order, the ten
\* fields in the fixed order and missing fields empty; all-blank rows are
\* never written.
C7_ExportOrdered ==
    (csv_op \in {"download", "roundtrip"} /\ csv_pc \in {"file", "parsed"}) =>
        ReadRows(UniversalNewlines(csv_data, 1), 1) = <<header>> \o ExportedRows

C7_Witness ==
    /\ csv_op = "download" /\ csv_pc = "file"
    /\ Len(entries) = 12
    /\ entries[1].idx = 10 /\ entries[1].field = "course_distribution"
    /\ \E k \in 1..Len(entries) : entries[k].idx = 0 /\ entries[k].field = "remark"
    /\ \E k \in 1..Len(entries) : entries[k].idx = 2 /\ entries[k].field = "sl_no"
                                   /\ entries[k].value = " 3"
    /\ Len(ExportedRows) = 2
    /\ ExportedRows[1][1] = "3"
    /\ ExportedRows[2][10] = "DIST9"

\* C1: normalize_raw_text is idempotent: normalizing an already normalized
\* text leaves it unchanged, also when course codes are glued back to back.
C1_Idempotent == norm_pc = "twice" => norm_out2 = norm_out1

=============================================================================
